---- MODULE Spec2Model ----
(***************************************************************************)
(* Authentication core of the IP geolocation backend: the auth router      *)
(* (rate limiter -> request validator -> controller), the credential       *)
(* store, the token service and the terminal error handler.                *)
(*                                                                         *)
(* Strings that the code inspects character by character (emails,          *)
(* passwords) are sequences of one-character strings.  JSON values are     *)
(* tagged records [t, v] so that "undefined", numbers and strings can sit  *)
(* in the same field.                                                      *)
(***************************************************************************)
EXTENDS Integers, Sequences, FiniteSets, TLC

VARIABLES users, seq, hits, now, reqs, wallet, registered, env, bcryptRounds

vars == <<users, seq, hits, now, reqs, wallet, registered, env, bcryptRounds>>

(***************************************************************************)
(* JSON values                                                             *)
(***************************************************************************)
Str(s) == [t |-> "string", v |-> s]

\* a JSON number, kept as its digits
Num(digits) == [t |-> "number", v |-> digits]

Undefined == [t |-> "undefined", v |-> <<>>]

IsString(x) == x.t = "string"

(***************************************************************************)
(* Character classes of zod's email pattern (case-insensitive)             *)
(***************************************************************************)
Letters ==
    {"a", "b", "c", "d", "e", "f", "g", "h", "i", "j", "k", "l", "m",
     "n", "o", "p", "q", "r", "s", "t", "u", "v", "w", "x", "y", "z"}

Digits == {"0", "1", "2", "3", "4", "5", "6", "7", "8", "9"}

AlphaNum == Letters \cup Digits

LocalChars == AlphaNum \cup {"_", "+", "-"}

\* positions of character c in s
Positions(s, c) == {i \in 1..Len(s) : s[i] = c}

\* One domain label followed by its dot: [A-Z0-9][A-Z0-9\-]*
IsLabel(l) ==
    /\ Len(l) >= 1
    /\ l[1] \in AlphaNum
    /\ \A i \in 2..Len(l) : l[i] \in AlphaNum \cup {"-"}

\* ([A-Z0-9][A-Z0-9\-]*\.)+[A-Z]{2,}  over the text after the "@"
IsDomain(d) ==
    LET dots == Positions(d, ".")
        cuts == {0} \cup dots
        \* the label that ends at dot position p starts after the previous cut
        PrevCut(p) == CHOOSE q \in cuts : q < p /\ \A r \in cuts : r < p => r <= q
        lastDot == CHOOSE p \in dots : \A r \in dots : r <= p
    IN  /\ dots # {}
        /\ \A p \in dots : IsLabel(SubSeq(d, PrevCut(p) + 1, p - 1))
        /\ Len(d) - lastDot >= 2
        /\ \A i \in (lastDot + 1)..Len(d) : d[i] \in Letters

\* ^(?!\.)(?!.*\.\.)([A-Z0-9_+-\.]*)[A-Z0-9_+-]  over the text before the "@"
IsLocalPart(l) ==
    /\ Len(l) >= 1
    /\ l[1] # "."
    /\ l[Len(l)] \in LocalChars
    /\ \A i \in 1..Len(l) : l[i] \in LocalChars \cup {"."}

\* z.string().email(): the whole string matches zod's email pattern
IsEmail(s) ==
    LET ats == Positions(s, "@")
        at == CHOOSE p \in ats : TRUE
    IN  /\ Cardinality(ats) = 1
        /\ \A i \in 1..(Len(s) - 1) : ~(s[i] = "." /\ s[i + 1] = ".")
        /\ IsLocalPart(SubSeq(s, 1, at - 1))
        /\ IsDomain(SubSeq(s, at + 1, Len(s)))

(***************************************************************************)
(* Request Validator: the zod schemas and safeParse                        *)
(***************************************************************************)
PasswordMin == 6

\* z.object({ email: z.string().email(..), password: z.string().min(6, ..) })
loginSchema ==
    [shape |-> << [key |-> "email", check |-> "email",
                   message |-> "Invalid email format"],
                  [key |-> "password", check |-> "min",
                   message |-> "Password must be at least 6 characters"] >>,
     refine |-> FALSE]

\* registerSchema without its confirmPassword: z.string() entry
registerSchemaNoConfirmField ==
    [shape |-> << [key |-> "email", check |-> "email",
                   message |-> "Invalid email format"],
                  [key |-> "password", check |-> "min",
                   message |-> "Password must be at least 6 characters"] >>,
     refine |-> TRUE]

\* the same two fields, confirmPassword: z.string(), and the .refine() on the object
registerSchema ==
    [shape |-> << [key |-> "email", check |-> "email",
                   message |-> "Invalid email format"],
                  [key |-> "password", check |-> "min",
                   message |-> "Password must be at least 6 characters"],
                  [key |-> "confirmPassword", check |-> "none", message |-> ""] >>,
     refine |-> TRUE]

Issue(path, message) == [message |-> message, field |-> path]

\* does the string x pass the field's check
CheckPasses(f, x) ==
    CASE f.check = "email" -> IsEmail(x)
      [] f.check = "min" -> Len(x) >= PasswordMin
      [] OTHER -> TRUE

\* ZodString._parse on one field: a value of the wrong type aborts the field
\* (invalid_type), a failing check leaves it dirty, and both add one issue.
ParseField(f, x) ==
    CASE x.t = "undefined" ->
            [status |-> "aborted", issues |-> <<Issue(f.key, "Required")>>]
      [] x.t = "number" ->
            [status |-> "aborted",
             issues |-> <<Issue(f.key, "Expected string, received number")>>]
      [] OTHER ->
            IF CheckPasses(f, x.v)
            THEN [status |-> "valid", issues |-> <<>>]
            ELSE [status |-> "dirty", issues |-> <<Issue(f.key, f.message)>>]

RECURSIVE ParseShapeFirstFailure(_, _, _)
\* an object parser that gives up at the first field with an issue
ParseShapeFirstFailure(shape, body, i) ==
    IF i > Len(shape)
    THEN [status |-> "valid", issues |-> <<>>]
    ELSE LET head == ParseField(shape[i], body[shape[i].key])
         IN  IF head.status # "valid" THEN head
             ELSE ParseShapeFirstFailure(shape, body, i + 1)

RECURSIVE ParseShape(_, _, _)
\* ZodObject._parse: every key of the shape is parsed, in declaration order, and
\* the issues accumulate; the object is aborted as soon as one field is.
ParseShape(shape, body, i) ==
    IF i > Len(shape)
    THEN [status |-> "valid", issues |-> <<>>]
    ELSE LET head == ParseField(shape[i], body[shape[i].key])
             rest == ParseShape(shape, body, i + 1)
         IN  [status |-> IF "aborted" \in {head.status, rest.status} THEN "aborted"
                         ELSE IF "dirty" \in {head.status, rest.status} THEN "dirty"
                         ELSE "valid",
              issues |-> head.issues \o rest.issues]

\* the refinement of registerSchema: data.password === data.confirmPassword
PasswordsMatch(body) == body.password = body.confirmPassword

\* ZodEffects._parse (refinement): the inner object is parsed first; when it is
\* aborted the refinement is not executed, otherwise it runs even on a dirty value.
safeParse(schema, body) ==
    LET inner == ParseShape(schema.shape, body, 1)
        refined ==
            IF schema.refine /\ inner.status # "aborted" /\ ~PasswordsMatch(body)
            THEN <<Issue("confirmPassword", "Passwords do not match")>>
            ELSE <<>>
        issues == inner.issues \o refined
    IN  [success |-> issues = <<>>, errors |-> issues]

\* /^(\d{1,3}\.){3}\d{1,3}$/: four groups of one to three digits, dot-separated
IsDottedQuad(s) ==
    LET dots == Positions(s, ".")
        cuts == {0, Len(s) + 1} \cup dots
        \* the group that ends before cut p starts after the previous cut
        PrevCut(p) == CHOOSE q \in cuts : q < p /\ \A r \in cuts : r < p => r <= q
    IN  /\ Cardinality(dots) = 3
        /\ \A p \in cuts \ {0} :
              /\ p - PrevCut(p) - 1 \in 1..3
              /\ \A i \in (PrevCut(p) + 1)..(p - 1) : s[i] \in Digits

\* ipSchema.safeParse(query).success:
\* z.object({ ip: z.string().regex(.., 'Invalid IP address format').optional() })
ipSchemaAccepts(query) ==
    CASE query.ip.t = "undefined" -> TRUE
      [] query.ip.t = "string" -> IsDottedQuad(query.ip.v)
      [] OTHER -> FALSE

(***************************************************************************)
(* Inputs                                                                  *)
(***************************************************************************)
Clients == {"c1", "c2"}

Slots == {"s1", "s2"}

Salts == {"x", "y"}

EmailA == <<"a", "@", "b", ".", "c", "o">>

EmailB == <<"c", "@", "d", ".", "i", "o">>

NotAnEmail == <<"n", "o", "t", "-", "a", "n", "-", "e", "m", "a", "i", "l">>

Secret == <<"s", "e", "c", "r", "e", "t">>

Hunter == <<"h", "u", "n", "t", "e", "r", "2">>

Ab == <<"a", "b">>

Body(e, p, c) == [password |-> p, confirmPassword |-> c, email |-> e]

\* the payloads of the pipeline specifications: valid ones for two emails, a
\* confirmation mismatch, and the payload with a malformed email and a short password
RegisterBodies ==
    { Body(Str(EmailA), Str(Secret), Str(Secret)),
      Body(Str(EmailB), Str(Secret), Str(Secret)),
      Body(Str(EmailA), Str(Secret), Str(Hunter)),
      Body(Str(NotAnEmail), Str(Ab), Undefined) }

LoginBodies ==
    { Body(Str(EmailA), Str(Secret), Undefined),
      Body(Str(EmailA), Str(Hunter), Undefined),
      Body(Str(EmailB), Str(Secret), Undefined),
      Body(Str(NotAnEmail), Str(Ab), Undefined) }

NoBody == Body(Undefined, Undefined, Undefined)

\* a domain without a top-level part, a one-letter top-level part, a leading dot
NoTld == <<"a", "@", "b">>

ShortTld == <<"a", "@", "b", ".", "c">>

LeadingDot == <<".", "a", "@", "b", ".", "c", "o">>

Abcde == <<"a", "b", "c", "d", "e">>

\* the payloads of the validator specification: every field absent, a number, or
\* a string on either side of its constraint
ValidatorBodies ==
    { Body(e, p, c) :
        e \in {Str(EmailA), Str(NotAnEmail), Str(NoTld), Str(ShortTld), Str(LeadingDot),
               Undefined, Num(<<"7">>)},
        p \in {Str(Secret), Str(Hunter), Str(Abcde), Str(Ab), Undefined, Num(<<"7">>)},
        c \in {Str(Secret), Str(Hunter), Str(Ab), Undefined, Num(<<"7">>)} }

(***************************************************************************)
(* Time: `now` is in milliseconds, token timestamps are in seconds         *)
(***************************************************************************)
windowMs == 15 * 60 * 1000

max == 5

TickMs == 5 * 60 * 1000

MaxTicks == 3

MaxHits == 6

MaxSeq == 2

MaxDays == 8

\* expiresIn: '7d', in seconds
ExpiresIn == 7 * 24 * 60 * 60

(***************************************************************************)
(* Password Hasher (bcrypt)                                                *)
(***************************************************************************)
DefaultRounds == 10

\* the one-way function of bcrypt, kept opaque: a digest names its salt and input
Digest(salt, plaintext) == <<salt, plaintext>>

\* bcrypt.hash(password, saltRounds): a fresh salt is embedded in the output
bcryptHash(plaintext, rounds, salt) ==
    [salt |-> salt, alg |-> "2b", cost |-> rounds, digest |-> Digest(salt, plaintext)]

\* a comparison that ignores the salt embedded in the hash
bcryptCompareNoSalt(plaintext, hash) == Digest("", plaintext) = hash.digest

\* a comparison that accepts every password
bcryptCompareAlways(plaintext, hash) == TRUE

\* bcrypt.compare(password, hash): recomputes with the salt embedded in the hash
bcryptCompare(plaintext, hash) == Digest(hash.salt, plaintext) = hash.digest

NoHash == [salt |-> "", alg |-> "none", cost |-> 0, digest |-> <<"", <<>>>>]

(***************************************************************************)
(* Token Service (jsonwebtoken)                                            *)
(***************************************************************************)
\* process.env.JWT_SECRET with JWT_SECRET unset and no fallback
JwtSecretNoFallback == ""

\* process.env.JWT_SECRET || 'your-secret-key': one key for the process lifetime
JwtSecret == "your-secret-key"

\* jwt.sign throws on an empty key ("secretOrPrivateKey must have a value"); the
\* payload and the options of the two calls give it no other reason to throw
jwtSignThrows(secret) == secret = ""

NoToken == [email |-> <<>>, userId |-> 0, iat |-> 0, exp |-> 0, sig |-> ""]

\* a token signed with expiresIn: '1d'
jwtSignOneDay(userId, email, secret, t) ==
    [email |-> email, userId |-> userId, iat |-> t \div 1000,
     exp |-> (t \div 1000) + 24 * 60 * 60, sig |-> secret]

\* jwt.sign({ userId, email }, secret, { expiresIn: '7d' }) at time t (ms)
jwtSign(userId, email, secret, t) ==
    [email |-> email, userId |-> userId, iat |-> t \div 1000,
     exp |-> (t \div 1000) + ExpiresIn, sig |-> secret]

\* the token with its signature bytes altered
Tampered(token) == [token EXCEPT !.sig = "forged"]

\* a verification that checks the signature and not the expiry
jwtVerifyIgnoresExpiry(token, secret, t) ==
    IF token.sig # secret THEN "JsonWebTokenError" ELSE "ok"

\* verify(token): "ok", or the kind of failure
jwtVerify(token, secret, t) ==
    IF token.sig # secret THEN "JsonWebTokenError"
    ELSE IF (t \div 1000) > token.exp THEN "TokenExpiredError"
    ELSE "ok"

(***************************************************************************)
(* Credential Store (prisma.user)                                          *)
(***************************************************************************)
NoUser == [password |-> NoHash, email |-> <<>>, id |-> 0, createdAt |-> 0]

\* prisma.user.findUnique({ where: { email } })
findUniqueByEmail(store, email) ==
    IF \E u \in store : u.email = email
    THEN CHOOSE u \in store : u.email = email
    ELSE NoUser

\* prisma.user.findUnique({ where: { id } })
findUniqueById(store, id) ==
    IF \E u \in store : u.id = id
    THEN CHOOSE u \in store : u.id = id
    ELSE NoUser

\* id Int @id @default(autoincrement()): n is the last value the sequence gave out,
\* and a value is never given out twice, whatever rows are deleted
nextId(n) == n + 1

\* the row prisma.user.create({ data: { email, password } }) inserts at time t
newUser(n, email, hash, t) ==
    [password |-> hash, email |-> email, id |-> nextId(n), createdAt |-> t]

\* a column without the unique constraint
noUniqueConstraint(store, email) == FALSE

\* email String @unique: would the insert violate the unique constraint
violatesUnique(store, email) == \E u \in store : u.email = email

(***************************************************************************)
(* Responses and errors                                                    *)
(***************************************************************************)
\* a key the body does not carry holds "", <<>>, NoUser or NoToken
NoResp ==
    [message |-> "", status |-> 0, success |-> FALSE, errors |-> <<>>,
     token |-> NoToken, kind |-> "none", user |-> NoUser,
     error |-> "", stack |-> "", data |-> "", detectedIp |-> <<>>]

\* res.status(status).json({ success, message, ... })
Json(status, success, message) ==
    [NoResp EXCEPT !.status = status, !.kind = "json", !.success = success,
                   !.message = message]

\* res.status(status).send(text): a plain-text body
Text(status, text) == [NoResp EXCEPT !.status = status, !.kind = "text", !.message = text]

\* a response that carries the row as the store returned it
PublicUserWholeRow(u, withCreatedAt) == u

\* the fields of a user that a response carries
PublicUser(u, withCreatedAt) ==
    [NoUser EXCEPT !.id = u.id, !.email = u.email,
                   !.createdAt = IF withCreatedAt THEN u.createdAt ELSE 0]

NoErr ==
    [message |-> "", stack |-> "", name |-> "", code |-> "", statusCode |-> 0,
     target |-> ""]

\* PrismaClientKnownRequestError P2002 raised by the unique constraint on email
UniqueViolation ==
    [message |-> "Unique constraint failed on the fields: (email)",
     stack |-> "PrismaClientKnownRequestError: .. at register (authController.js:32)",
     name |-> "PrismaClientKnownRequestError", code |-> "P2002", statusCode |-> 0,
     target |-> "email"]

\* the error prisma raises when the database cannot be reached
StoreUnreachable ==
    [message |-> "Cannot reach database server",
     stack |-> "PrismaClientInitializationError: .. at authController.js",
     name |-> "PrismaClientInitializationError", code |-> "", statusCode |-> 0,
     target |-> ""]

\* the error jwt.sign throws
SignError ==
    [NoErr EXCEPT !.name = "Error", !.message = "secretOrPrivateKey must have a value",
                  !.stack = "Error: .. at module.exports [as sign]"]

\* ...(process.env.NODE_ENV === 'development' && { error, stack })
withDiagnostics(resp, err, mode) ==
    IF mode = "development"
    THEN [resp EXCEPT !.error = err.message, !.stack = err.stack]
    ELSE resp

\* an error handler without the Prisma P2002 case
errorHandlerNoPrismaCase(err, mode) ==
    withDiagnostics(Json(IF err.statusCode # 0 THEN err.statusCode ELSE 500, FALSE,
                         IF err.message # "" THEN err.message
                         ELSE "Internal server error"),
                    err, mode)

\* errorHandler(err, req, res, next): the mapping of an error to a response,
\* with NODE_ENV = mode
errorHandler(err, mode) ==
    LET status0 == IF err.statusCode # 0 THEN err.statusCode ELSE 500
        message0 == IF err.message # "" THEN err.message ELSE "Internal server error"
        byName ==
            CASE err.name = "TokenExpiredError" ->
                    [message |-> "Token has expired", statusCode |-> 403]
              [] err.name = "JsonWebTokenError" ->
                    [message |-> "Invalid token", statusCode |-> 403]
              [] err.name = "UnauthorizedError" ->
                    [message |-> "Unauthorized access", statusCode |-> 401]
              [] err.name = "ValidationError" ->
                    [message |-> "Validation failed", statusCode |-> 400]
              [] OTHER -> [message |-> message0, statusCode |-> status0]
        \* `Unique constraint failed: ${err.meta?.target}`
        final ==
            IF err.code = "P2002"
            THEN [message |-> IF err.target = "email"
                              THEN "Unique constraint failed: email"
                              ELSE "Unique constraint failed: undefined",
                  statusCode |-> 400]
            ELSE byName
    IN  withDiagnostics(Json(final.statusCode, FALSE, final.message), err, mode)

(***************************************************************************)
(* Requests in flight                                                      *)
(*   pc:   idle -> limiter -> validate -> controller -> hash -> create     *)
(*                                                   -> compare            *)
(*         idle -> gate -> controller                      ... -> done     *)
(*   seen: the stages that have handled the request                        *)
(*   by:   the stage that sent the response                                *)
(*   err:  the error handed to next(error), if any                         *)
(*   log:  the log events written for the request, in order                *)
(*   upstream: what the geolocation service did with the request's call    *)
(*   taken, after201: what held when the request arrived (history)         *)
(***************************************************************************)
NoAuth == [token |-> NoToken, scheme |-> ""]

Bearer(token) == [token |-> token, scheme |-> "Bearer"]

\* no call to the geolocation service has settled
NoAnswer == [status |-> 0, latency |-> 0]

\* req.query of a request without parameters
NoQuery == [ip |-> Undefined]

Idle ==
    [body |-> NoBody, query |-> NoQuery, hash |-> NoHash, user |-> NoUser, resp |-> NoResp,
     err |-> NoErr, pc |-> "idle", route |-> "", client |-> "",
     auth |-> NoAuth, seen |-> {}, by |-> "", log |-> <<>>,
     upstream |-> NoAnswer, taken |-> FALSE, after201 |-> FALSE]

\* logger.warn / logger.info / logger.error called by stage for the request
Logged(r, level, stage) == [r EXCEPT !.log = Append(@, [by |-> stage, level |-> level])]

\* the request moves on to the stage at pc, having been handled by stage
Pass(r, stage, pc) == [r EXCEPT !.pc = pc, !.seen = @ \cup {stage}]

\* stage sends the response resp, which ends the request
Respond(r, stage, resp) ==
    [r EXCEPT !.pc = "done", !.resp = resp, !.seen = @ \cup {stage}, !.by = stage]

\* catch (error) { logger.error(..); next(error) }: stage logs err and hands it to
\* the error handler, which logs it and responds
Throw(r, stage, err) ==
    [Logged(Logged(r, "error", stage), "error", "errorHandler")
        EXCEPT !.pc = "done", !.resp = errorHandler(err, env), !.err = err,
               !.seen = @ \cup {stage, "errorHandler"}, !.by = "errorHandler"]

Init ==
    /\ users = {}
    /\ seq = 0
    /\ hits = <<>>
    /\ now = 0
    /\ env = "production"
    /\ bcryptRounds = Undefined
    /\ reqs = [s \in Slots |-> Idle]
    /\ wallet = NoToken
    /\ registered = {}

(***************************************************************************)
(* Rate Limiter: express-rate-limit with its in-memory store               *)
(***************************************************************************)
\* a key that names the route and not the client
keyByRoute(r) == r.route

\* the default key of a request: its client address (req.ip)
keyGenerator(r) == r.client

\* MemoryStore.increment(key) at time t: a missing or expired entry starts a new
\* window, then the hit is counted
increment(store, key, t) ==
    LET fresh == [totalHits |-> 0, resetTime |-> t + windowMs]
        cur == IF key \in DOMAIN store /\ store[key].resetTime > t
               THEN store[key] ELSE fresh
    IN  [cur EXCEPT !.totalHits = @ + 1]

\* totalHits of the key's running window
usedHits(store, key, t) ==
    IF key \in DOMAIN store /\ store[key].resetTime > t
    THEN store[key].totalHits ELSE 0

\* a limit that already rejects hit number max
overLimitFromMax(n) == n >= max

\* the limiter's verdict on a request that is hit number n of its window
overLimit(n) == n > max

\* a handler that sends the 429 and still calls next()
tooManyRequestsThenNext(r) ==
    [r EXCEPT !.pc = "validate", !.seen = @ \cup {"limiter"}, !.by = "limiter",
              !.resp = Text(429, "Too many attempts, please try again later")]

\* the limiter's handler: the 429 with the configured message, and no next()
tooManyRequests(r) ==
    Respond(r, "limiter", Text(429, "Too many attempts, please try again later"))

\* a router with validateToken mounted without authenticateToken
routeEntryNoGate(route) ==
    CASE route \in {"register", "login"} -> "limiter"
      [] OTHER -> "controller"

\* the first handler of each route of the router
\*   router.post('/register', authLimiter, validateRequest(registerSchema), register)
\*   router.post('/login', authLimiter, validateRequest(loginSchema), login)
\*   router.get('/ip-info', getIPInfo)
\*   router.get('/validate-token', authenticateToken, validateToken)
routeEntry(route) ==
    CASE route \in {"register", "login"} -> "limiter"
      [] route = "validate-token" -> "gate"
      [] OTHER -> "controller"

\* a request arrives at a route of the auth router
Receive(s, route, client, body, auth, query) ==
    LET email == body.email.v
        r == [Idle EXCEPT
                !.pc = routeEntry(route),
                !.route = route, !.client = client, !.body = body, !.auth = auth,
                !.query = query,
                !.taken = route = "register" /\ \E u \in users : u.email = email,
                !.after201 = route = "login"
                             /\ <<email, body.password.v>> \in registered]
    IN  /\ reqs[s].pc = "idle"
        /\ r.pc = "limiter" => usedHits(hits, keyGenerator(r), now) < MaxHits
        /\ reqs' = [reqs EXCEPT ![s] = r]
        /\ UNCHANGED <<users, seq, hits, now, wallet, registered, env, bcryptRounds>>

\* authLimiter: count the hit, reject with 429 above max, otherwise next()
AuthLimiter(s) ==
    LET r == reqs[s]
        key == keyGenerator(r)
        entry == increment(hits, key, now)
    IN  /\ r.pc = "limiter"
        /\ hits' = [k \in DOMAIN hits \cup {key} |-> IF k = key THEN entry ELSE hits[k]]
        /\ reqs' = [reqs EXCEPT ![s] =
                        IF overLimit(entry.totalHits)
                        THEN tooManyRequests(r)
                        ELSE Pass(r, "limiter", "validate")]
        /\ UNCHANGED <<users, seq, now, wallet, registered, env, bcryptRounds>>

(***************************************************************************)
(* validateRequest(schema)                                                 *)
(***************************************************************************)
schemaOf(route) == IF route = "register" THEN registerSchema ELSE loginSchema

\* a validator that calls next() whatever safeParse returned
validateRequestAlwaysNext(schema, r) == Pass(r, "validator", "controller")

\* what validateRequest(schema) does with a request: the 400 or next()
validateRequest(schema, r) ==
    LET result == safeParse(schema, r.body)
    IN  IF ~result.success
        THEN Respond(Logged(r, "warn", "validator"), "validator",
                     [Json(400, FALSE, "Validation failed") EXCEPT !.errors = result.errors])
        ELSE Pass(r, "validator", "controller")

\* a limiter with skipFailedRequests: true, which takes the hit back when the
\* request is answered with a failure status
ValidateRequestSkipFailed(s) ==
    LET r == validateRequest(schemaOf(reqs[s].route), reqs[s])
        key == keyGenerator(reqs[s])
    IN  /\ reqs[s].pc = "validate"
        /\ reqs' = [reqs EXCEPT ![s] = r]
        /\ hits' = IF r.pc = "done" /\ key \in DOMAIN hits
                   THEN [hits EXCEPT ![key].totalHits = @ - 1]
                   ELSE hits
        /\ UNCHANGED <<users, seq, now, wallet, registered, env, bcryptRounds>>

ValidateRequest(s) ==
    /\ reqs[s].pc = "validate"
    /\ reqs' = [reqs EXCEPT ![s] = validateRequest(schemaOf(reqs[s].route), reqs[s])]
    /\ UNCHANGED <<users, seq, hits, now, wallet, registered, env, bcryptRounds>>

(***************************************************************************)
(* Auth Flow Controller: register                                          *)
(***************************************************************************)
DecimalDigits == <<"0", "1", "2", "3", "4", "5", "6", "7", "8", "9">>

\* the number a string of decimal digits denotes
RECURSIVE DecimalValue(_)
DecimalValue(ds) ==
    IF ds = <<>> THEN 0
    ELSE 10 * DecimalValue(SubSeq(ds, 1, Len(ds) - 1))
         + (CHOOSE i \in 1..10 : DecimalDigits[i] = ds[Len(ds)]) - 1

\* the result of parseInt when no digit could be read
NaN == [n |-> 0, nan |-> TRUE]

\* the length of the longest prefix of s made of characters of class
PrefixLen(s, class) ==
    CHOOSE k \in 0..Len(s) :
        /\ \A i \in 1..k : s[i] \in class
        /\ k < Len(s) => s[k + 1] \notin class

\* parseInt(x) of a string without 0x prefix: leading white space is skipped, then
\* an optional sign and the longest run of decimal digits are read and whatever
\* follows is ignored; NaN when there is no digit.  An unset variable is undefined,
\* which parseInt reads as the string "undefined".
parseInt(x) ==
    IF ~IsString(x) THEN NaN
    ELSE LET s == x.v
             a == SubSeq(s, PrefixLen(s, {" "}) + 1, Len(s))
             signed == a # <<>> /\ a[1] \in {"+", "-"}
             b == IF signed THEN Tail(a) ELSE a
             k == PrefixLen(b, Digits)
             magnitude == DecimalValue(SubSeq(b, 1, k))
         IN  IF k = 0 THEN NaN
             ELSE [n |-> IF signed /\ a[1] = "-" THEN 0 - magnitude ELSE magnitude,
                   nan |-> FALSE]

\* parseInt(setting) || 10: NaN and 0 are falsy, every other number is kept
saltRoundsOf(setting) ==
    LET parsed == parseInt(setting)
    IN  IF parsed.nan \/ parsed.n = 0 THEN DefaultRounds ELSE parsed.n

\* const saltRounds = parseInt(process.env.BCRYPT_ROUNDS) || 10
saltRounds == saltRoundsOf(bcryptRounds)

\* a duplicate check that sends the 400 without return, so the handler goes on
emailTakenNoReturn(r) ==
    [Logged(r, "warn", "controller")
        EXCEPT !.resp = Json(400, FALSE, "Email already registered"),
               !.seen = @ \cup {"controller"}, !.by = "controller"]

\* the response to a registration whose email is already stored
emailTaken(r) ==
    Respond(Logged(r, "warn", "controller"), "controller",
            Json(400, FALSE, "Email already registered"))

\* await prisma.user.findUnique({ where: { email } }) and the duplicate check
RegisterFindUnique(s) ==
    LET r == Pass(reqs[s], "lookup", "hash")
        existingUser == findUniqueByEmail(users, r.body.email.v)
    IN  /\ reqs[s].pc = "controller"
        /\ r.route = "register"
        /\ \/ reqs' = [reqs EXCEPT ![s] = IF existingUser # NoUser THEN emailTaken(r) ELSE r]
           \/ reqs' = [reqs EXCEPT ![s] = Throw(reqs[s], "controller", StoreUnreachable)]
        /\ UNCHANGED <<users, seq, hits, now, wallet, registered, env, bcryptRounds>>

\* a hasher that serves a request only while no other request is in flight
RegisterHashOneAtATime(s, salts) ==
    LET r == Pass(reqs[s], "hash", "create")
    IN  /\ reqs[s].pc = "hash"
        /\ \A t \in Slots \ {s} : reqs[t].pc \in {"idle", "done"}
        /\ \E salt \in salts :
              reqs' = [reqs EXCEPT ![s] =
                          [r EXCEPT !.hash = bcryptHash(r.body.password.v, saltRounds, salt)]]
        /\ UNCHANGED <<users, seq, hits, now, wallet, registered, env, bcryptRounds>>

\* await bcrypt.hash(password, saltRounds)
RegisterHash(s, salts) ==
    LET r == Pass(reqs[s], "hash", "create")
    IN  /\ reqs[s].pc = "hash"
        /\ \E salt \in salts :
              reqs' = [reqs EXCEPT ![s] =
                          [r EXCEPT !.hash = bcryptHash(r.body.password.v, saltRounds, salt)]]
        /\ UNCHANGED <<users, seq, hits, now, wallet, registered, env, bcryptRounds>>

\* the 201 response of register
registered201(r, user, token) ==
    Respond([Logged(r, "info", "controller")
                EXCEPT !.user = user, !.seen = @ \cup {"created", "sign"}], "controller",
            [Json(201, TRUE, "Registration successful")
               EXCEPT !.user = PublicUser(user, FALSE), !.token = token])

\* await prisma.user.create(..), jwt.sign(..) and the 201 response
RegisterCreate(s) ==
    LET r == reqs[s]
        email == r.body.email.v
        user == newUser(seq, email, r.hash, now)
        token == jwtSign(user.id, user.email, JwtSecret, now)
    IN  /\ r.pc = "create"
        /\ \/ IF violatesUnique(users, email)
              THEN /\ reqs' = [reqs EXCEPT ![s] = Throw(r, "controller", UniqueViolation)]
                   /\ UNCHANGED <<users, seq, registered>>
              ELSE /\ users' = users \cup {user}
                   /\ seq' = user.id
                   /\ IF jwtSignThrows(JwtSecret)
                      THEN /\ reqs' = [reqs EXCEPT ![s] = Throw(r, "controller", SignError)]
                           /\ UNCHANGED registered
                      ELSE /\ registered' = registered \cup {<<email, r.body.password.v>>}
                           /\ reqs' = [reqs EXCEPT ![s] = registered201(r, user, token)]
           \/ /\ reqs' = [reqs EXCEPT ![s] = Throw(r, "controller", StoreUnreachable)]
              /\ UNCHANGED <<users, seq, registered>>
        /\ UNCHANGED <<hits, now, wallet, env, bcryptRounds>>

(***************************************************************************)
(* Auth Flow Controller: login                                             *)
(***************************************************************************)
\* a login that answers an unknown email with its own status and message
unknownEmailNotFound(r) ==
    Respond(Logged(r, "warn", "controller"), "controller",
            Json(404, FALSE, "User not found"))

\* the response to a login whose email is not stored
unknownEmail(r) ==
    Respond(Logged(r, "warn", "controller"), "controller",
            Json(401, FALSE, "Invalid email or password"))

\* the response to a login whose password does not verify
wrongPassword(r) ==
    Respond(Logged(r, "warn", "controller"), "controller",
            Json(401, FALSE, "Invalid email or password"))

\* await prisma.user.findUnique({ where: { email }, select: .. })
LoginFindUnique(s) ==
    LET r == Pass(reqs[s], "lookup", "compare")
        user == findUniqueByEmail(users, r.body.email.v)
    IN  /\ reqs[s].pc = "controller"
        /\ r.route = "login"
        /\ \/ reqs' = [reqs EXCEPT ![s] =
                          IF user = NoUser THEN unknownEmail(r) ELSE [r EXCEPT !.user = user]]
           \/ reqs' = [reqs EXCEPT ![s] = Throw(reqs[s], "controller", StoreUnreachable)]
        /\ UNCHANGED <<users, seq, hits, now, wallet, registered, env, bcryptRounds>>

\* a login that stores a fresh hash of the password it has just verified
LoginCompareRehash(s) ==
    LET r == Pass(reqs[s], "compare", "done")
        passwordMatch == bcryptCompare(r.body.password.v, r.user.password)
        token == jwtSign(r.user.id, r.user.email, JwtSecret, now)
        rehashed == [r.user EXCEPT
                        !.password = bcryptHash(r.body.password.v, saltRounds, "y")]
    IN  /\ reqs[s].pc = "compare"
        /\ reqs' = [reqs EXCEPT ![s] =
                       IF ~passwordMatch
                       THEN wrongPassword(r)
                       ELSE Respond([Logged(r, "info", "controller")
                                       EXCEPT !.seen = @ \cup {"sign"}], "controller",
                                    [Json(200, TRUE, "Login successful")
                                       EXCEPT !.user = PublicUser(r.user, FALSE),
                                              !.token = token])]
        /\ users' = IF passwordMatch
                    THEN {IF u.id = r.user.id THEN rehashed ELSE u : u \in users}
                    ELSE users
        /\ UNCHANGED <<seq, hits, now, wallet, registered, env, bcryptRounds>>

\* await bcrypt.compare(password, user.password), jwt.sign(..) and the response
LoginCompare(s) ==
    LET r == Pass(reqs[s], "compare", "done")
        passwordMatch == bcryptCompare(r.body.password.v, r.user.password)
        token == jwtSign(r.user.id, r.user.email, JwtSecret, now)
    IN  /\ reqs[s].pc = "compare"
        /\ reqs' = [reqs EXCEPT ![s] =
                       IF ~passwordMatch
                       THEN wrongPassword(r)
                       ELSE Respond([Logged(r, "info", "controller")
                                       EXCEPT !.seen = @ \cup {"sign"}], "controller",
                                    [Json(200, TRUE, "Login successful")
                                       EXCEPT !.user = PublicUser(r.user, FALSE),
                                              !.token = token])]
        /\ UNCHANGED <<users, seq, hits, now, wallet, registered, env, bcryptRounds>>

(***************************************************************************)
(* Authentication gate and validateToken                                   *)
(***************************************************************************)
\* authenticateToken: Authorization: Bearer <token>, verified by the Token Service
AuthenticateToken(s) ==
    LET r == reqs[s]
        verdict == jwtVerify(r.auth.token, JwtSecret, now)
    IN  /\ r.pc = "gate"
        /\ reqs' = [reqs EXCEPT ![s] =
                       IF r.auth.scheme # "Bearer" \/ r.auth.token = NoToken
                       THEN Respond(r, "gate", Json(401, FALSE, "Access token required"))
                       ELSE IF verdict = "TokenExpiredError"
                       THEN Respond(r, "gate", Json(403, FALSE, "Token has expired"))
                       ELSE IF verdict # "ok"
                       THEN Respond(r, "gate", Json(403, FALSE, "Invalid token"))
                       ELSE [Pass(r, "gate", "controller")
                               EXCEPT !.user = [NoUser EXCEPT !.id = r.auth.token.userId,
                                                              !.email = r.auth.token.email]]]
        /\ UNCHANGED <<users, seq, hits, now, wallet, registered, env, bcryptRounds>>

\* a validateToken that answers from the identity the token carries
validateTokenFromClaims(store, r) ==
    Respond(r, "controller",
            [Json(200, TRUE, "Token is valid") EXCEPT !.user = PublicUser(r.user, TRUE)])

\* validateToken once the store has answered: the 404, or the 200 with the row's
\* id, email and createdAt; neither path calls the logger
validateToken(store, r) ==
    LET user == findUniqueById(store, r.user.id)
    IN  IF user = NoUser
        THEN Respond(r, "controller", Json(404, FALSE, "User not found"))
        ELSE Respond(r, "controller",
                     [Json(200, TRUE, "Token is valid")
                        EXCEPT !.user = PublicUser(user, TRUE)])

\* validateToken: re-fetch the user by req.user.userId
ValidateTokenFindUnique(s) ==
    LET r == Pass(reqs[s], "lookup", "done")
    IN  /\ reqs[s].pc = "controller"
        /\ r.route = "validate-token"
        /\ \/ reqs' = [reqs EXCEPT ![s] = validateToken(users, r)]
           \/ reqs' = [reqs EXCEPT ![s] = Throw(reqs[s], "controller", StoreUnreachable)]
        /\ UNCHANGED <<users, seq, hits, now, wallet, registered, env, bcryptRounds>>

(***************************************************************************)
(* getIPInfo: the proxied geolocation lookup                               *)
(***************************************************************************)
\* axios.get(url, { timeout: 5000 }), in milliseconds
AxiosTimeout == 5000

\* what the geolocation service does with one call: the HTTP status it answers
\* with (0: the connection is refused) and the time it takes, in milliseconds
UpstreamAnswers ==
    { [status |-> st, latency |-> l] :
        st \in {200, 404, 500, 0}, l \in {200, AxiosTimeout + 1000} }

\* axios.get: the call is aborted when no answer came within the timeout, and a
\* status outside 2xx rejects with error.response set
axiosGet(answer, timeout) ==
    IF answer.latency > timeout
    THEN [message |-> "timeout of 5000ms exceeded", status |-> 0, code |-> "ECONNABORTED",
          ok |-> FALSE]
    ELSE IF answer.status = 0
    THEN [message |-> "connect ECONNREFUSED", status |-> 0, code |-> "ECONNREFUSED",
          ok |-> FALSE]
    ELSE IF answer.status \in 200..299
    THEN [message |-> "", status |-> answer.status, code |-> "", ok |-> TRUE]
    ELSE [message |-> "Request failed with status code",
          status |-> answer.status,
          code |-> IF answer.status >= 500 THEN "ERR_BAD_RESPONSE" ELSE "ERR_BAD_REQUEST",
          ok |-> FALSE]

\* req.query.ip if it is truthy, otherwise the address of the client
clientIpOf(r) ==
    IF r.query.ip.t = "string" /\ r.query.ip.v # <<>> THEN r.query.ip.v ELSE <<r.client>>

\* a catch block without the ECONNABORTED case
ipInfoFailureNoTimeoutCase(error) ==
    IF error.status = 404
    THEN Json(404, FALSE, "IP address not found")
    ELSE Json(500, FALSE, "Failed to fetch IP information")

\* the catch block of getIPInfo: the response for a failed upstream call
ipInfoFailure(error) ==
    IF error.status = 404
    THEN Json(404, FALSE, "IP address not found")
    ELSE IF error.code = "ECONNABORTED"
    THEN Json(504, FALSE, "Request timeout - IP service unavailable")
    ELSE Json(500, FALSE, "Failed to fetch IP information")

\* getIPInfo up to the await: the address is chosen and the upstream call is sent
GetIPInfoRequest(s) ==
    /\ reqs[s].pc = "controller"
    /\ reqs[s].route = "ip-info"
    /\ reqs' = [reqs EXCEPT ![s] = Pass(reqs[s], "upstream", "upstream")]
    /\ UNCHANGED <<users, seq, hits, now, wallet, registered, env, bcryptRounds>>

\* the upstream call settles: the 200 with the provider's payload, or the catch block
GetIPInfoSettle(s) ==
    LET r == reqs[s]
    IN  /\ r.pc = "upstream"
        /\ \E answer \in UpstreamAnswers :
              LET result == axiosGet(answer, AxiosTimeout)
                  rr == [r EXCEPT !.upstream = answer]
              IN  reqs' = [reqs EXCEPT ![s] =
                     IF result.ok
                     THEN Respond(Logged(rr, "info", "controller"), "controller",
                                  [Json(200, TRUE, "")
                                     EXCEPT !.data = "geolocation",
                                            !.detectedIp = clientIpOf(r)])
                     ELSE Respond([Logged(rr, "error", "controller")
                                     EXCEPT !.err = [NoErr EXCEPT !.code = result.code,
                                                                  !.statusCode = result.status,
                                                                  !.message = result.message]],
                                  "controller", ipInfoFailure(result))]
        /\ UNCHANGED <<users, seq, hits, now, wallet, registered, env, bcryptRounds>>

(***************************************************************************)
(* The client side, the store's administrator and the clock                *)
(***************************************************************************)
\* the response reaches the client, which may keep the token it carries
Deliver(s, keeps) ==
    LET r == reqs[s]
    IN  /\ r.pc = "done"
        /\ reqs' = [reqs EXCEPT ![s] = Idle]
        /\ \E keep \in keeps :
              wallet' = IF keep /\ r.resp.token # NoToken THEN r.resp.token ELSE wallet
        /\ UNCHANGED <<users, seq, hits, now, registered, env, bcryptRounds>>

\* MemoryStore.clearExpired at time t: entries whose window is over are dropped
\* (increment treats an expired entry and a missing one alike)
clearExpired(store, t) ==
    [k \in {j \in DOMAIN store : store[j].resetTime > t} |-> store[k]]

\* time passes
Tick ==
    /\ now < MaxTicks * TickMs
    /\ now' = now + TickMs
    /\ hits' = clearExpired(hits, now')
    /\ UNCHANGED <<users, seq, reqs, wallet, registered, env, bcryptRounds>>

\* a row is deleted from the store by its administrator, not by this program
ExternalDelete ==
    /\ seq < MaxSeq
    /\ \E u \in users :
          /\ users' = users \ {u}
          /\ registered' = {p \in registered : p[1] # u.email}
    /\ UNCHANGED <<seq, hits, now, reqs, wallet, env, bcryptRounds>>

\* a store that outlives the process (a database or a shared cache)
RestartKeepsCounts ==
    /\ hits # <<>>
    /\ reqs' = [s \in Slots |-> IF reqs[s].pc = "done" THEN reqs[s] ELSE Idle]
    /\ UNCHANGED <<users, seq, hits, now, wallet, registered, env, bcryptRounds>>

\* the process is restarted: rateLimit(..) is given no store, so its counts live in
\* the memory of the process and are gone; the requests that were being handled are
\* dropped, the responses already sent and the database are not affected
Restart ==
    /\ hits # <<>>
    /\ hits' = <<>>
    /\ reqs' = [s \in Slots |-> IF reqs[s].pc = "done" THEN reqs[s] ELSE Idle]
    /\ UNCHANGED <<users, seq, now, wallet, registered, env, bcryptRounds>>

DayMs == 24 * 60 * 60 * 1000

\* a day passes: every rate-limit window that was open is over
TickDay ==
    /\ now < MaxDays * DayMs
    /\ now' = now + DayMs
    /\ hits' = clearExpired(hits, now')
    /\ UNCHANGED <<users, seq, reqs, wallet, registered, env, bcryptRounds>>

\* a string that is not a token of this server
Garbage == [NoToken EXCEPT !.sig = "garbage"]

\* the Authorization headers of the gate's cases: none, another scheme, Bearer
\* without a token, Bearer with garbage, and the held token intact and altered
GateHeaders ==
    {NoAuth, [token |-> Garbage, scheme |-> "Basic"], Bearer(NoToken), Bearer(Garbage)}
        \cup (IF wallet = NoToken THEN {}
              ELSE {Bearer(wallet), Bearer(Tampered(wallet))})

Ip8888 == <<"8", ".", "8", ".", "8", ".", "8">>

IpAbc == <<"a", "b", "c">>

IpThreeGroups == <<"1", ".", "2", ".", "3">>

IpLongGroup == <<"1", "2", "3", "4", ".", "1", ".", "1", ".", "1">>

\* the query strings of /api/ip-info: no ip, an empty one, and well and ill formed ones
IpQueries ==
    { [ip |-> v] : v \in {Undefined, Str(<<>>), Str(Ip8888), Str(IpAbc),
                          Str(IpThreeGroups), Str(IpLongGroup)} }

Chars(n) == <<DecimalDigits[(n \div 10) + 1], DecimalDigits[(n % 10) + 1]>>

\* values of BCRYPT_ROUNDS in the environment of the process: unset, empty, and
\* strings that are and are not positive integers
RoundsSettings ==
    {Undefined, Str(<<>>), Str(<<"0">>), Str(<<"4">>), Str(Chars(10)), Str(Chars(12)),
     Str(<<"-", "5">>), Str(<<"a", "b", "c">>), Str(<<"1", "2", "a", "b", "c">>),
     Str(<<"3", ".", "7">>), Str(<<" ", "8">>)}

\* the Authorization headers a client can send
Headers == {NoAuth} \cup (IF wallet = NoToken THEN {}
                         ELSE {Bearer(wallet), Bearer(Tampered(wallet))})

(***************************************************************************)
(* Specifications                                                          *)
(***************************************************************************)
\* The auth pipeline with concurrent requests of one client, inside one window.
Next ==
    \/ \E s \in Slots, b \in RegisterBodies : Receive(s, "register", "c1", b, NoAuth, NoQuery)
    \/ \E s \in Slots, b \in LoginBodies : Receive(s, "login", "c1", b, NoAuth, NoQuery)
    \/ \E s \in Slots, h \in Headers : Receive(s, "validate-token", "c1", NoBody, h, NoQuery)
    \/ \E s \in Slots : AuthLimiter(s)
    \/ \E s \in Slots : ValidateRequest(s)
    \/ \E s \in Slots : RegisterFindUnique(s)
    \/ \E s \in Slots : RegisterHash(s, {"x"})
    \/ \E s \in Slots : RegisterCreate(s)
    \/ \E s \in Slots : LoginFindUnique(s)
    \/ \E s \in Slots : LoginCompare(s)
    \/ \E s \in Slots : AuthenticateToken(s)
    \/ \E s \in Slots : ValidateTokenFindUnique(s)
    \/ \E s \in Slots : Deliver(s, BOOLEAN)

Spec == Init /\ [][Next]_vars

\* The auth pipeline under two clients and a running clock, one request at a time.
NextLimiter ==
    \/ \E c \in Clients :
          Receive("s1", "register", c, Body(Str(EmailA), Str(Secret), Str(Secret)), NoAuth,
                  NoQuery)
    \/ \E c \in Clients, b \in {Body(Str(EmailA), Str(Secret), Undefined),
                                Body(Str(NotAnEmail), Str(Ab), Undefined)} :
          Receive("s1", "login", c, b, NoAuth, NoQuery)
    \/ AuthLimiter("s1")
    \/ ValidateRequest("s1")
    \/ RegisterFindUnique("s1")
    \/ RegisterHash("s1", Salts)
    \/ RegisterCreate("s1")
    \/ LoginFindUnique("s1")
    \/ LoginCompare("s1")
    \/ Deliver("s1", {FALSE})
    \/ Tick

SpecLimiter == Init /\ [][NextLimiter]_vars

\* The Request Validator alone: a request that has passed the limiter, with any
\* payload of ValidatorBodies, is handed to validateRequest.
InitValidate ==
    /\ users = {}
    /\ seq = 0
    /\ env = "production"
    /\ bcryptRounds = Undefined
    /\ hits = [k \in {"c1"} |-> [totalHits |-> 1, resetTime |-> windowMs]]
    /\ now = 0
    /\ wallet = NoToken
    /\ registered = {}
    /\ \E route \in {"register", "login"}, b \in ValidatorBodies :
          reqs = [s \in Slots |->
                     IF s = "s1"
                     THEN [Idle EXCEPT !.pc = "validate", !.route = route,
                                       !.client = "c1", !.body = b,
                                       !.seen = {"limiter"}]
                     ELSE Idle]

NextValidate == ValidateRequest("s1")

SpecValidate == InitValidate /\ [][NextValidate]_vars

\* Every route of the router, one request at a time, in either configuration,
\* with a store whose rows its administrator may delete.
InitApi ==
    /\ users = {}
    /\ seq = 0
    /\ hits = <<>>
    /\ now = 0
    /\ env \in {"production", "development"}
    /\ bcryptRounds = Undefined
    /\ reqs = [s \in Slots |-> Idle]
    /\ wallet = NoToken
    /\ registered = {}

NextApi ==
    \/ Receive("s1", "register", "c1", Body(Str(EmailA), Str(Secret), Str(Secret)),
               NoAuth, NoQuery)
    \/ \E b \in {Body(Str(EmailA), Str(Secret), Undefined),
                  Body(Str(EmailA), Str(Hunter), Undefined),
                  Body(Str(NotAnEmail), Str(Ab), Undefined)} :
          Receive("s1", "login", "c1", b, NoAuth, NoQuery)
    \/ \E h \in GateHeaders : Receive("s1", "validate-token", "c1", NoBody, h, NoQuery)
    \/ \E q \in IpQueries : Receive("s1", "ip-info", "c1", NoBody, NoAuth, q)
    \/ AuthLimiter("s1")
    \/ ValidateRequest("s1")
    \/ RegisterFindUnique("s1")
    \/ RegisterHash("s1", {"x"})
    \/ RegisterCreate("s1")
    \/ LoginFindUnique("s1")
    \/ LoginCompare("s1")
    \/ AuthenticateToken("s1")
    \/ ValidateTokenFindUnique("s1")
    \/ GetIPInfoRequest("s1")
    \/ GetIPInfoSettle("s1")
    \/ Deliver("s1", BOOLEAN)
    \/ ExternalDelete

SpecApi == InitApi /\ [][NextApi]_vars

\* Tokens over their lifetime: one client registers, logs in and presents tokens
\* while the days pass.
NextToken ==
    \/ Receive("s1", "register", "c1", Body(Str(EmailA), Str(Secret), Str(Secret)),
               NoAuth, NoQuery)
    \/ \E b \in {Body(Str(EmailA), Str(Secret), Undefined),
                  Body(Str(EmailA), Str(Hunter), Undefined)} :
          Receive("s1", "login", "c1", b, NoAuth, NoQuery)
    \/ \E h \in Headers : Receive("s1", "validate-token", "c1", NoBody, h, NoQuery)
    \/ AuthLimiter("s1")
    \/ ValidateRequest("s1")
    \/ RegisterFindUnique("s1")
    \/ RegisterHash("s1", {"x"})
    \/ RegisterCreate("s1")
    \/ LoginFindUnique("s1")
    \/ LoginCompare("s1")
    \/ AuthenticateToken("s1")
    \/ ValidateTokenFindUnique("s1")
    \/ Deliver("s1", BOOLEAN)
    \/ TickDay

SpecToken == Init /\ [][NextToken]_vars

\* The geolocation route with concurrent requests; the runtime delivers every
\* settled upstream call (answer, error or timer) to the handler that awaits it.
NextIpInfo ==
    \/ \E s \in Slots, c \in Clients, q \in IpQueries :
          Receive(s, "ip-info", c, NoBody, NoAuth, q)
    \/ \E s \in Slots : GetIPInfoRequest(s)
    \/ \E s \in Slots : GetIPInfoSettle(s)
    \/ \E s \in Slots : Deliver(s, {FALSE})

SpecIpInfo ==
    /\ InitApi
    /\ [][NextIpInfo]_vars
    /\ \A s \in Slots : WF_vars(GetIPInfoSettle(s))

\* The auth limiter over windows and restarts: two clients send requests that the
\* validator rejects, to both auth routes, two at a time.
NextRestart ==
    \/ \E s \in Slots, route \in {"register", "login"}, c \in Clients :
          Receive(s, route, c, Body(Str(NotAnEmail), Str(Ab), Undefined), NoAuth, NoQuery)
    \/ \E s \in Slots : AuthLimiter(s)
    \/ \E s \in Slots : ValidateRequest(s)
    \/ \E s \in Slots : Deliver(s, {FALSE})
    \/ Tick
    \/ Restart

SpecRestart == Init /\ [][NextRestart]_vars

\* Registration under every setting of BCRYPT_ROUNDS.
InitRounds ==
    /\ users = {}
    /\ seq = 0
    /\ hits = <<>>
    /\ now = 0
    /\ env = "production"
    /\ bcryptRounds \in RoundsSettings
    /\ reqs = [s \in Slots |-> Idle]
    /\ wallet = NoToken
    /\ registered = {}

NextRounds ==
    \/ \E e \in {EmailA, EmailB} :
          Receive("s1", "register", "c1", Body(Str(e), Str(Secret), Str(Secret)),
                  NoAuth, NoQuery)
    \/ AuthLimiter("s1")
    \/ ValidateRequest("s1")
    \/ RegisterFindUnique("s1")
    \/ RegisterHash("s1", {"x"})
    \/ RegisterCreate("s1")
    \/ Deliver("s1", {FALSE})

SpecRounds == InitRounds /\ [][NextRounds]_vars

\* Registrations and logins of one client in flight together.
NextConcurrent ==
    \/ \E s \in Slots, e \in {EmailA, EmailB} :
          Receive(s, "register", "c1", Body(Str(e), Str(Secret), Str(Secret)), NoAuth,
                  NoQuery)
    \/ \E s \in Slots, p \in {Secret, Hunter} :
          Receive(s, "login", "c1", Body(Str(EmailA), Str(p), Undefined), NoAuth, NoQuery)
    \/ \E s \in Slots : AuthLimiter(s)
    \/ \E s \in Slots : ValidateRequest(s)
    \/ \E s \in Slots : RegisterFindUnique(s)
    \/ \E s \in Slots : RegisterHash(s, {"x"})
    \/ \E s \in Slots : RegisterCreate(s)
    \/ \E s \in Slots : LoginFindUnique(s)
    \/ \E s \in Slots : LoginCompare(s)
    \/ \E s \in Slots : Deliver(s, {FALSE})

SpecConcurrent == Init /\ [][NextConcurrent]_vars

(***************************************************************************)
(* Claims                                                                  *)
(***************************************************************************)
\* the request in slot s has been through validateRequest
Validated(s) == "validator" \in reqs[s].seen

EmailFormatIssue == Issue("email", "Invalid email format")

PasswordLengthIssue == Issue("password", "Password must be at least 6 characters")

MismatchIssue == Issue("confirmPassword", "Passwords do not match")

\* {"email":"not-an-email","password":"ab"} and no other field
TwoFaultsPayload == Body(Str(NotAnEmail), Str(Ab), Undefined)

TwoFaultsCase(s) ==
    /\ Validated(s)
    /\ reqs[s].route = "register"
    /\ reqs[s].body = TwoFaultsPayload

\* C8 as stated: the payload with email "not-an-email" and password "ab" and no
\* other field, submitted to /api/register, is answered 400 with exactly two
\* violations, the email format and the password minimum length.
C8_TwoViolations ==
    \A s \in Slots :
        TwoFaultsCase(s) =>
            /\ reqs[s].resp.status = 400
            /\ reqs[s].resp.errors = <<EmailFormatIssue, PasswordLengthIssue>>

\* C8 amended: that payload is answered 400 with exactly three violations, in this
\* order: the email format, the password minimum length, and the missing
\* confirmPassword ("Required").
C8_ThreeViolations ==
    \A s \in Slots :
        TwoFaultsCase(s) =>
            /\ reqs[s].pc = "done"
            /\ reqs[s].by = "validator"
            /\ reqs[s].resp.status = 400
            /\ reqs[s].resp.success = FALSE
            /\ reqs[s].resp.errors =
                  <<EmailFormatIssue, PasswordLengthIssue,
                    Issue("confirmPassword", "Required")>>

C8_Witness == \E s \in Slots : TwoFaultsCase(s) /\ reqs[s].pc = "done"

\* The constraints of a schema, in declaration order, as predicates on the payload:
\* each field is a string that meets its rule, and (register) confirmPassword
\* equals password.  A failing constraint is named by the field it reports against.
FailingConstraints(route, b) ==
    (IF IsString(b.email) /\ IsEmail(b.email.v) THEN <<>> ELSE <<"email">>)
    \o (IF IsString(b.password) /\ Len(b.password.v) >= PasswordMin
        THEN <<>> ELSE <<"password">>)
    \o (IF route = "register" /\ ~IsString(b.confirmPassword)
        THEN <<"confirmPassword">> ELSE <<>>)
    \o (IF route = "register" /\ b.confirmPassword # b.password
        THEN <<"confirmPassword">> ELSE <<>>)

ReportedFields(resp) == [i \in 1..Len(resp.errors) |-> resp.errors[i].field]

TypeIssue(field, x) ==
    IF x.t = "undefined" THEN <<Issue(field, "Required")>>
    ELSE IF x.t = "number" THEN <<Issue(field, "Expected string, received number")>>
    ELSE <<>>

AllStrings(route, b) ==
    /\ IsString(b.email)
    /\ IsString(b.password)
    /\ route = "register" => IsString(b.confirmPassword)

\* the violations the amended claim expects
ExpectedErrors(route, b) ==
    (IF ~IsString(b.email) THEN TypeIssue("email", b.email)
     ELSE IF ~IsEmail(b.email.v) THEN <<EmailFormatIssue>> ELSE <<>>)
    \o (IF ~IsString(b.password) THEN TypeIssue("password", b.password)
        ELSE IF Len(b.password.v) < PasswordMin THEN <<PasswordLengthIssue>> ELSE <<>>)
    \o (IF route = "register" THEN TypeIssue("confirmPassword", b.confirmPassword)
        ELSE <<>>)
    \o (IF route = "register" /\ AllStrings(route, b) /\ b.confirmPassword # b.password
        THEN <<MismatchIssue>> ELSE <<>>)

Done(s) == reqs[s].pc = "done"

\* the stages of the Auth Flow Controller and its collaborators
ControllerStages == {"controller", "lookup", "hash", "compare", "created", "sign"}

\* the request in slot s caused no lookup, no hashing, no creation and no token
Untouched(s) ==
    /\ reqs[s].seen \cap (ControllerStages \cup {"errorHandler"}) = {}
    /\ reqs[s].user = NoUser
    /\ reqs[s].hash = NoHash
    /\ reqs[s].resp.token = NoToken

\* the payload of an auth request fails the schema of its route
FailsSchema(r) ==
    /\ r.route \in {"register", "login"}
    /\ ~safeParse(schemaOf(r.route), r.body).success

C10_Rejected ==
    \A s \in Slots :
        (FailsSchema(reqs[s]) /\ reqs[s].pc \notin {"limiter", "validate"}) =>
            /\ Done(s)
            /\ reqs[s].resp.status \in {400, 429}
            /\ reqs[s].resp.status = 400 => reqs[s].by = "validator"
            /\ reqs[s].seen \subseteq {"limiter", "validator"}
            /\ Untouched(s)

C10_NoEffect ==
    \A s \in Slots :
        (FailsSchema(reqs[s]) /\ reqs[s].pc = "validate" /\ reqs'[s] # reqs[s]) =>
            /\ reqs'[s].resp.status = 400
            /\ users' = users
            /\ registered' = registered
            /\ wallet' = wallet

\* C10: a request to /api/register or /api/login whose payload fails its schema is
\* answered 400 by the validation gate and never reaches the controller: the
\* step that rejects it leaves the Credential Store unchanged, and the request
\* causes no lookup, no hashing and no token.
C10_ValidationGate == []C10_Rejected /\ [][C10_NoEffect]_vars

C10_Witness ==
    \E s \in Slots :
        /\ FailsSchema(reqs[s])
        /\ Done(s)
        /\ reqs[s].resp.status = 400
        /\ users # {}

(***************************************************************************)
(* Claims about the rate limiter                                           *)
(***************************************************************************)
\* slot s takes its limiter step
LimiterStep(s) == reqs[s].pc = "limiter" /\ reqs'[s].pc # "limiter"

\* C5: for one client within one 15-minute window, requests number 1 to 5 to
\* /api/login (counted by the limiter over the client's running window) are
\* passed on to the validator and request number 6 is answered 429.
C5_SixthRejected ==
    [][ \A s \in Slots :
          (LimiterStep(s) /\ reqs[s].route = "login") =>
              LET n == usedHits(hits, reqs[s].client, now) + 1
              IN  /\ n <= 5 => /\ reqs'[s].pc = "validate"
                               /\ reqs'[s].resp = NoResp
                  /\ n = 6 => /\ reqs'[s].pc = "done"
                              /\ reqs'[s].resp.status = 429 ]_vars

\* a login is answered 429 as hit number 6 while a user is registered
C5_Witness ==
    \E s \in Slots :
        /\ Done(s)
        /\ reqs[s].route = "login"
        /\ reqs[s].resp.status = 429
        /\ usedHits(hits, reqs[s].client, now) = 6

C6_Inv ==
    \A s \in Slots :
        reqs[s].resp.status = 429 =>
            /\ Done(s)
            /\ reqs[s].by = "limiter"
            /\ reqs[s].seen = {"limiter"}
            /\ Untouched(s)

C6_Act ==
    \A s \in Slots :
        (LimiterStep(s) /\ usedHits(hits, reqs[s].client, now) >= max) =>
            /\ reqs'[s].resp.status = 429
            /\ users' = users
            /\ registered' = registered
            /\ wallet' = wallet

\* C6: a request to /api/register or /api/login that the rate limiter rejects
\* never reaches the Request Validator or the controller: it ends with the 429,
\* and causes no store lookup, no hashing, no user creation and no token.
C6_RejectedStopsAtLimiter == []C6_Inv /\ [][C6_Act]_vars

C6_Witness ==
    \E s \in Slots :
        /\ reqs[s].route = "register"
        /\ reqs[s].resp.status = 429
        /\ safeParse(registerSchema, reqs[s].body).success

\* C7: the auth count is kept per client and shared by /api/register and
\* /api/login: a limiter step of client c, on either route, adds one to c's count
\* and leaves every other client's count alone, it rejects exactly when c has
\* used up its 5, and no other step of a request changes a count.
C7_PerClientBudget ==
    [][ /\ \A s \in Slots :
              LimiterStep(s) =>
                  LET c == reqs[s].client
                  IN  /\ usedHits(hits', c, now) = usedHits(hits, c, now) + 1
                      /\ \A d \in Clients \ {c} :
                            usedHits(hits', d, now) = usedHits(hits, d, now)
                      /\ (reqs'[s].resp.status = 429) = (usedHits(hits, c, now) >= 5)
        /\ ((\A s \in Slots : ~LimiterStep(s)) /\ now' = now) => hits' = hits ]_vars

\* c1 has used its budget on both routes and is rejected, c2 is on its first hit
C7_Witness ==
    /\ users # {}
    /\ reqs["s1"].route = "login"
    /\ reqs["s1"].client = "c1"
    /\ reqs["s1"].resp.status = 429
    /\ usedHits(hits, "c1", now) = 6
    /\ usedHits(hits, "c2", now) = 1

(***************************************************************************)
(* Claims about register and login                                         *)
(***************************************************************************)
Email(s) == reqs[s].body.email.v

Password(s) == reqs[s].body.password.v

\* the register controller of slot s had its existence check answered
RegisterLookedUp(s) == reqs[s].route = "register" /\ "lookup" \in reqs[s].seen

\* slot s holds a registration for an email that was stored when it arrived
DuplicateRegister(s) == RegisterLookedUp(s) /\ reqs[s].taken

C2_UniqueEmails == \A u, v \in users : u.email = v.email => u = v

\* C2: the store holds at most one User per email, whatever the interleaving of
\* Register requests; and a Register that reaches the controller for an email
\* already stored, with the store answering, ends in 400 "Email already
\* registered" and creates nothing.
C2_NoDuplicateUser ==
    /\ C2_UniqueEmails
    /\ \A s \in Slots :
          DuplicateRegister(s) =>
              /\ Done(s)
              /\ reqs[s].by = "controller"
              /\ reqs[s].resp.status = 400
              /\ reqs[s].resp.message = "Email already registered"
              /\ reqs[s].seen \cap {"hash", "created", "sign"} = {}
              /\ reqs[s].resp.token = NoToken

\* two users are stored and a registration for a stored email has been answered
C2_Witness ==
    /\ Cardinality(users) = 2
    /\ \E s \in Slots : DuplicateRegister(s) /\ Done(s)

\* the insert of slot s ran into the store's unique constraint
RaceDuplicate(s) ==
    /\ reqs[s].route = "register"
    /\ Done(s)
    /\ reqs[s].err.code = "P2002"

\* the existence check of slot s found the email
SequentialDuplicate(s) ==
    /\ RegisterLookedUp(s)
    /\ Done(s)
    /\ "hash" \notin reqs[s].seen

\* C3 as stated: the request whose insert hits the uniqueness violation receives
\* the same response as a sequential duplicate registration.
C3_SameResponse ==
    \A s, t \in Slots :
        (RaceDuplicate(s) /\ SequentialDuplicate(t)) => reqs[s].resp = reqs[t].resp

\* C3 amended: the request whose insert hits the uniqueness violation receives the
\* status of a sequential duplicate registration, 400 with success = false and
\* never 500, but with the message "Unique constraint failed: email" where the
\* sequential one has "Email already registered"; it creates no user.
C3_SameStatus ==
    /\ \A s \in Slots :
          RaceDuplicate(s) =>
              /\ ~reqs[s].taken
              /\ reqs[s].by = "errorHandler"
              /\ reqs[s].resp.status = 400
              /\ reqs[s].resp.success = FALSE
              /\ reqs[s].resp.message = "Unique constraint failed: email"
              /\ "created" \notin reqs[s].seen
              /\ reqs[s].resp.token = NoToken
    /\ \A s, t \in Slots :
          (RaceDuplicate(s) /\ SequentialDuplicate(t)) =>
              /\ reqs[s].resp.status = reqs[t].resp.status
              /\ reqs[t].resp.message = "Email already registered"

C3_Witness == \E s, t \in Slots : RaceDuplicate(s) /\ SequentialDuplicate(t)

\* the login of slot s was answered by the controller and found no user
UnknownEmailLogin(s) ==
    /\ reqs[s].route = "login"
    /\ Done(s)
    /\ reqs[s].by = "controller"
    /\ reqs[s].user = NoUser

\* the login of slot s found its user and the password did not verify
WrongPasswordLogin(s) ==
    /\ reqs[s].route = "login"
    /\ Done(s)
    /\ reqs[s].by = "controller"
    /\ reqs[s].user # NoUser
    /\ ~bcryptCompare(Password(s), reqs[s].user.password)

\* C4: a login with an email that is not stored and a login with a stored email
\* and a wrong password receive the same response, 401 with the same body.
C4_SameFailure ==
    /\ \A s \in Slots :
          (UnknownEmailLogin(s) \/ WrongPasswordLogin(s)) =>
              /\ reqs[s].resp.status = 401
              /\ reqs[s].resp.success = FALSE
              /\ reqs[s].resp.token = NoToken
    /\ \A s, t \in Slots :
          (UnknownEmailLogin(s) /\ WrongPasswordLogin(t)) => reqs[s].resp = reqs[t].resp

C4_Witness == \E s, t \in Slots : UnknownEmailLogin(s) /\ WrongPasswordLogin(t)

\* the token names a stored user with this email and passes the Token Service
TokenOf(token, email) ==
    /\ jwtVerify(token, JwtSecret, now) = "ok"
    /\ token.email = email
    /\ \E u \in users : u.id = token.userId /\ u.email = email

\* a Register that reached the controller, with the store answering and the
\* email unused, is answered 201 with the user and a token of that user
C1_Register ==
    \A s \in Slots :
        (RegisterLookedUp(s) /\ Done(s) /\ reqs[s].err = NoErr) =>
            IF \E u \in users : u.email = Email(s) /\ u # reqs[s].user
            THEN reqs[s].resp.status = 400
            ELSE /\ reqs[s].resp.status = 201
                 /\ reqs[s].resp.success
                 /\ reqs[s].resp.user.email = Email(s)
                 /\ reqs[s].resp.user.id = reqs[s].resp.token.userId
                 /\ TokenOf(reqs[s].resp.token, Email(s))
                 /\ <<Email(s), Password(s)>> \in registered

\* a Login that arrives after a 201 for the same credentials and reaches the
\* controller, with the store answering, is answered 200 with a token of the user
C1_Login ==
    \A s \in Slots :
        ( /\ reqs[s].route = "login"
          /\ reqs[s].after201
          /\ "lookup" \in reqs[s].seen
          /\ reqs[s].pc # "compare" ) =>
            /\ Done(s)
            /\ reqs[s].resp.status = 200
            /\ reqs[s].resp.success
            /\ reqs[s].resp.user.email = Email(s)
            /\ reqs[s].resp.user.id = reqs[s].resp.token.userId
            /\ TokenOf(reqs[s].resp.token, Email(s))

\* a token returned by Register or Login passes the gate, and validateToken, with
\* the store answering, answers success with the id and email of the token's user
C1_Validate ==
    \A s \in Slots :
        ( /\ reqs[s].route = "validate-token"
          /\ reqs[s].auth.scheme = "Bearer"
          /\ reqs[s].auth.token.sig = JwtSecret
          /\ reqs[s].pc # "gate" ) =>
            /\ "gate" \in reqs[s].seen
            /\ reqs[s].by # "gate"
            /\ (Done(s) /\ reqs[s].err = NoErr) =>
                  /\ reqs[s].resp.status = 200
                  /\ reqs[s].resp.success
                  /\ reqs[s].resp.user.id = reqs[s].auth.token.userId
                  /\ reqs[s].resp.user.email = reqs[s].auth.token.email

\* C1: for valid credentials and an unused email, Register and then Login with
\* the same credentials succeed (201, then 200), and the token each returns is
\* accepted by the authentication gate and by validateToken, which answers
\* success with that user's id and email (the requests being admitted by the
\* limiter and the store answering).
C1_RegisterLoginValidate == C1_Register /\ C1_Login /\ C1_Validate

\* a login after a 201 has been answered 200, and a token has been validated
C1_Witness ==
    \E s, t \in Slots :
        /\ reqs[s].route = "login"
        /\ reqs[s].after201
        /\ reqs[s].resp.status = 200
        /\ reqs[t].route = "validate-token"
        /\ reqs[t].resp.status = 200
        /\ reqs[t].resp.user.email = Email(s)

(***************************************************************************)
(* The geolocation route and its input                                     *)
(***************************************************************************)
\* the request in slot s is a lookup whose ip parameter ipSchema does not accept
MalformedIpLookup(s) ==
    /\ reqs[s].route = "ip-info"
    /\ ~ipSchemaAccepts(reqs[s].query)

\* C11: a GET /api/ip-info whose ip parameter is present and not in dotted-quad
\* syntax is answered 400 and no upstream call is made for it.
C11_MalformedIpRejected ==
    \A s \in Slots :
        MalformedIpLookup(s) =>
            /\ "upstream" \notin reqs[s].seen
            /\ reqs[s].pc = "done" => reqs[s].resp.status = 400

(***************************************************************************)
(* The authentication gate                                                 *)
(***************************************************************************)
\* the request in slot s asks for /api/validate-token without a header of the
\* form Bearer <token>
NoBearer(s) ==
    /\ reqs[s].route = "validate-token"
    /\ reqs[s].auth.scheme # "Bearer" \/ reqs[s].auth.token = NoToken

\* the request in slot s presents a Bearer token that this server did not sign
GarbageBearer(s) ==
    /\ reqs[s].route = "validate-token"
    /\ reqs[s].auth.scheme = "Bearer"
    /\ reqs[s].auth.token # NoToken
    /\ reqs[s].auth.token.sig # JwtSecret

\* the request in slot s has not got past the gate
StoppedAtGate(s) ==
    /\ reqs[s].pc \in {"gate", "done"}
    /\ reqs[s].seen \subseteq {"gate"}
    /\ reqs[s].pc = "done" => reqs[s].by = "gate"

\* C12: GET /api/validate-token without a header of the form Bearer <token> is
\* answered 401, and with Bearer <garbage> 403; in both cases the request does not
\* reach the validateToken controller and no store lookup happens.
C12_GateRejects ==
    \A s \in Slots :
        /\ NoBearer(s) =>
              /\ StoppedAtGate(s)
              /\ reqs[s].pc = "done" =>
                    (reqs[s].resp.status = 401 /\ ~reqs[s].resp.success)
        /\ GarbageBearer(s) =>
              /\ StoppedAtGate(s)
              /\ reqs[s].pc = "done" =>
                    (reqs[s].resp.status = 403 /\ ~reqs[s].resp.success)

\* a Bearer <garbage> request has been answered while the store holds a user
C12_Witness ==
    \E s \in Slots :
        /\ GarbageBearer(s)
        /\ reqs[s].auth.token = Garbage
        /\ reqs[s].pc = "done"
        /\ users # {}

\* slot s takes the step of the gate
GateStep(s) == reqs[s].pc = "gate" /\ reqs'[s].pc # "gate"

\* the request in slot s presents a token this server signed, after its expiresAt
ExpiredBearer(s) ==
    /\ reqs[s].route = "validate-token"
    /\ reqs[s].auth.scheme = "Bearer"
    /\ reqs[s].auth.token # NoToken
    /\ reqs[s].auth.token.sig = JwtSecret
    /\ now \div 1000 > reqs[s].auth.token.exp

\* the response the step gives slot s is a rejection by the gate
RejectedByGate(s) ==
    /\ reqs'[s].pc = "done"
    /\ reqs'[s].by = "gate"
    /\ ~reqs'[s].resp.success
    /\ "lookup" \notin reqs'[s].seen

\* C13: a token past its expiresAt and a token with a tampered signature are both
\* rejected, each with its own outcome: 403 "Token has expired" only for the
\* expired one, 403 "Invalid token" only for the tampered one, and 401 only for a
\* missing token.
C13_DistinctTokenErrors ==
    [][\A s \in Slots :
          GateStep(s) =>
              /\ (ExpiredBearer(s) \/ GarbageBearer(s) \/ NoBearer(s)) => RejectedByGate(s)
              /\ ExpiredBearer(s) <=>
                    (reqs'[s].resp.status = 403
                       /\ reqs'[s].resp.message = "Token has expired")
              /\ GarbageBearer(s) <=>
                    (reqs'[s].resp.status = 403
                       /\ reqs'[s].resp.message = "Invalid token")
              /\ NoBearer(s) <=> reqs'[s].resp.status = 401]_vars

\* the gate has answered a token past its expiresAt
C13_Witness ==
    \E s \in Slots :
        /\ reqs[s].pc = "done"
        /\ reqs[s].by = "gate"
        /\ reqs[s].auth.token.sig = JwtSecret
        /\ reqs[s].resp.message = "Token has expired"

(***************************************************************************)
(* The lifetime of a token                                                 *)
(***************************************************************************)
\* the step answers slot s with a newly signed token
Issues(s) == reqs[s].resp.token = NoToken /\ reqs'[s].resp.token # NoToken

\* the request in slot s presents a token this server signed less than seven days
\* (in seconds) after its issuedAt
LiveBearer(s) ==
    /\ reqs[s].route = "validate-token"
    /\ reqs[s].auth.scheme = "Bearer"
    /\ reqs[s].auth.token # NoToken
    /\ reqs[s].auth.token.sig = JwtSecret
    /\ now \div 1000 < reqs[s].auth.token.iat + 7 * 24 * 60 * 60

ValidateTokenAnswers(s) ==
    /\ reqs[s].route = "validate-token"
    /\ reqs[s].pc = "controller"
    /\ reqs'[s].pc = "done"
    /\ reqs'[s].by = "controller"

\* C15: validateToken fetches the user by the token's userId on every call: when
\* the store holds no user with that id it answers 404 although the token passed
\* the gate, and otherwise it answers success with the id, email and createdAt of
\* the stored row.
C15_RefetchesUser ==
    [][\A s \in Slots :
          ValidateTokenAnswers(s) =>
              /\ "gate" \in reqs[s].seen
              /\ "lookup" \in reqs'[s].seen
              /\ IF \E u \in users : u.id = reqs[s].user.id
                 THEN \E u \in users :
                         /\ u.id = reqs[s].user.id
                         /\ reqs'[s].resp.status = 200
                         /\ reqs'[s].resp.success
                         /\ reqs'[s].resp.user.id = u.id
                         /\ reqs'[s].resp.user.email = u.email
                         /\ reqs'[s].resp.user.createdAt = u.createdAt
                 ELSE /\ reqs'[s].resp.status = 404
                      /\ ~reqs'[s].resp.success
                      /\ reqs'[s].resp.message = "User not found"
                      /\ reqs'[s].resp.user = NoUser]_vars

\* a token that passed the gate was answered 404: its user is no longer stored
C15_Witness ==
    \E s \in Slots :
        /\ reqs[s].route = "validate-token"
        /\ reqs[s].pc = "done"
        /\ "gate" \in reqs[s].seen
        /\ reqs[s].by = "controller"
        /\ reqs[s].resp.status = 404

(***************************************************************************)
(* What a response body carries                                            *)
(***************************************************************************)
\* the body carries a password hash
CarriesHash(resp) == resp.user.password # NoHash

\* the body carries the text pw in one of its text values
CarriesText(resp, pw) ==
    \/ resp.user.email = pw
    \/ resp.token.email = pw
    \/ resp.detectedIp = pw

\* C16: no response body of any endpoint, success or failure, contains a user's
\* password hash or the plaintext password of the request.
C16_NoPasswordInResponse ==
    \A s \in Slots :
        /\ ~CarriesHash(reqs[s].resp)
        /\ (IsString(reqs[s].body.password) /\ reqs[s].body.password.v # <<>>) =>
              ~CarriesText(reqs[s].resp, reqs[s].body.password.v)

\* a login was answered 200 after the controller read the row with its hash
C16_Witness ==
    \E s \in Slots :
        /\ reqs[s].route = "login"
        /\ reqs[s].pc = "done"
        /\ reqs[s].resp.status = 200
        /\ reqs[s].user.password # NoHash
        /\ reqs[s].resp.user.id = reqs[s].user.id

(***************************************************************************)
(* Failure responses                                                       *)
(***************************************************************************)
\* the request in slot s has been answered with a failure
Failed(s) == reqs[s].pc = "done" /\ ~reqs[s].resp.success

\* C17: in production configuration no failure response carries the raw message
\* or the stack of the thrown error.
C17_NoDiagnosticsInProduction ==
    \A s \in Slots :
        (env = "production" /\ Failed(s)) =>
            /\ reqs[s].resp.error = ""
            /\ reqs[s].resp.stack = ""
            /\ reqs[s].err # NoErr => reqs[s].resp.message # reqs[s].err.message

\* C18: every failure response, whichever stage produced it, is a JSON body with
\* success = false and a message, with errors (if any) a list of {field, message}.
C18_UniformEnvelope ==
    \A s \in Slots :
        Failed(s) =>
            /\ reqs[s].resp.kind = "json"
            /\ reqs[s].resp.message # ""
            /\ \A i \in 1..Len(reqs[s].resp.errors) :
                  DOMAIN reqs[s].resp.errors[i] = {"field", "message"}

\* C19: every request that a controller, the validator or the error handler
\* answers with a failure has a log event written for it by the time it is answered.
C19_FailureIsLogged ==
    \A s \in Slots :
        (Failed(s) /\ reqs[s].by \in {"controller", "validator", "errorHandler"}) =>
            reqs[s].log # <<>>

(***************************************************************************)
(* The upstream timeout                                                    *)
(***************************************************************************)
\* the upstream call of the lookup in slot s took longer than 5000 ms
UpstreamTimedOut(s) ==
    /\ reqs[s].route = "ip-info"
    /\ reqs[s].pc = "done"
    /\ reqs[s].upstream.latency > 5000

\* C20: a lookup whose upstream call exceeds the five-second timeout is answered
\* 504, never 500, and a lookup that waits for its upstream call is answered.
C20_TimeoutIs504 ==
    /\ [](\A s \in Slots :
             UpstreamTimedOut(s) =>
                 /\ reqs[s].resp.status = 504
                 /\ reqs[s].by = "controller"
                 /\ ~reqs[s].resp.success)
    /\ \A s \in Slots : (reqs[s].pc = "upstream") ~> (reqs[s].pc = "done")

\* an upstream that would have answered 500 after the timeout was cut off with 504
C20_Witness ==
    \E s \in Slots :
        /\ UpstreamTimedOut(s)
        /\ reqs[s].upstream.status = 500
        /\ reqs[s].resp.status = 504

(***************************************************************************)
(* C21: a Register, Login or ValidateToken request during which the store  *)
(* cannot be reached is answered with 503, which no unhandled error gets.  *)
(* Violated: the error handler has no case for the store's error, so the   *)
(* request gets the catch-all 500.                                         *)
(***************************************************************************)
\* the store could not be reached while the request in slot s was handled
StoreFailed(s) ==
    /\ Done(s)
    /\ reqs[s].route \in {"register", "login", "validate-token"}
    /\ reqs[s].err = StoreUnreachable

C21_StoreUnreachableIs503 ==
    \A s \in Slots : StoreFailed(s) => reqs[s].resp.status = 503

(***************************************************************************)
(* C22: rows of the store are created by Register only and are never        *)
(* updated or deleted by the program: every step either leaves the store   *)
(* as it is, or is the insert of a Register request that adds one row with  *)
(* a fresh id and a fresh email and answers 201, or is the store's          *)
(* administrator removing rows while no handler moves.  Login,              *)
(* ValidateToken and getIPInfo never change the store, and a row that stays *)
(* keeps its id, email, password hash and createdAt.                        *)
(***************************************************************************)
\* the step is the insert of the Register request in slot s
InsertedByRegister(s) ==
    /\ reqs[s].route = "register"
    /\ reqs[s].pc = "create"
    /\ reqs'[s].resp.status = 201
    /\ users \subseteq users'
    /\ \E u \in users' \ users :
          /\ users' = users \cup {u}
          /\ u.email = reqs[s].body.email.v
          /\ u.password = reqs[s].hash
          /\ u.createdAt = now
          /\ \A v \in users : v.id # u.id /\ v.email # u.email

\* the step is not one of the program: rows leave the store and no request moves
DeletedFromOutside ==
    /\ users' \subseteq users
    /\ reqs' = reqs

C22_OnlyRegisterWrites ==
    [][ \/ users' = users
        \/ \E s \in Slots : InsertedByRegister(s)
        \/ DeletedFromOutside ]_vars

\* a login has been answered 200 and the row it verified against is stored as it was
C22_Witness ==
    /\ users # {}
    /\ \E s \in Slots :
          /\ Done(s)
          /\ reqs[s].route = "login"
          /\ reqs[s].resp.status = 200
          /\ \E u \in users : u.email = reqs[s].body.email.v /\ u.password = reqs[s].user.password

(***************************************************************************)
(* C23: every failure inside register, login, validateToken and getIPInfo   *)
(* reaches the error handler, and the error handler alone sends the         *)
(* failure response.  Violated: the controllers answer the duplicate email, *)
(* the failed login and the missing user themselves, and the catch block of *)
(* getIPInfo answers 404, 504 and 500 without calling next(error).          *)
(***************************************************************************)
\* the request in slot s failed after it had reached its controller
ControllerFailure(s) ==
    /\ Done(s)
    /\ reqs[s].resp.status >= 400
    /\ reqs[s].by \in {"controller", "errorHandler"}

C23_FailuresViaErrorHandler ==
    \A s \in Slots : ControllerFailure(s) => reqs[s].by = "errorHandler"

(***************************************************************************)
(* C24: a request passes its gates in the order the router mounts them     *)
(* (rate limiter, then validator, then controller on /register and /login; *)
(* the authentication gate, then the controller on /validate-token) and    *)
(* ends in exactly one terminal outcome: one response is sent, and only by *)
(* the step that ends the request; a request whose error was forwarded is  *)
(* answered by the error handler and by no other stage; after a gate has   *)
(* rejected a request no later stage has handled it; an ended request is   *)
(* not handled again.                                                      *)
(***************************************************************************)
\* the stages behind the gates
BehindGates == ControllerStages \cup {"upstream", "errorHandler"}

\* the gates the router mounts in front of the controller of a route, in order
gatesOf(route) ==
    CASE route \in {"register", "login"} -> <<"limiter", "validator">>
      [] route = "validate-token" -> <<"gate">>
      [] OTHER -> <<>>

\* the stages that have handled r respect the order of its route's gates
InGateOrder(r) ==
    LET gates == gatesOf(r.route)
    IN  /\ \A i \in 1..Len(gates) :
              gates[i] \in r.seen => \A j \in 1..(i - 1) : gates[j] \in r.seen
        /\ r.seen \cap BehindGates # {} => \A i \in 1..Len(gates) : gates[i] \in r.seen

\* one terminal outcome: the response exists exactly when the request has ended
OneOutcome(r) ==
    /\ r.pc # "done" => r.resp = NoResp /\ r.by = ""
    /\ r.pc = "done" => r.resp.status # 0 /\ r.by \in r.seen
    /\ "errorHandler" \in r.seen => r.by = "errorHandler" /\ r.err # NoErr
    /\ r.by \in {"limiter", "validator", "gate"} =>
          /\ r.seen \cap BehindGates = {}
          /\ r.by = "limiter" => "validator" \notin r.seen

C24_Inv == \A s \in Slots : reqs[s].pc # "idle" => InGateOrder(reqs[s]) /\ OneOutcome(reqs[s])

\* a gate never handles a request that a later stage has handled, and an ended
\* request is only taken off by the delivery of its response
C24_Act ==
    \A s \in Slots :
        /\ reqs[s].pc = "done" => reqs'[s] \in {reqs[s], Idle}
        /\ reqs[s].pc \notin {"idle", "done"} /\ reqs'[s] # reqs[s] =>
              /\ reqs[s].seen \subseteq reqs'[s].seen
              /\ \A g \in {"limiter", "validator", "gate"} :
                    g \in reqs'[s].seen \ reqs[s].seen =>
                       reqs[s].seen \cap ((BehindGates \cup {"validator"}) \ {g}) = {}

C24_OneTerminalOutcome == []C24_Inv /\ [][C24_Act]_vars

\* a registration that passed both gates, failed in its controller and was answered
\* once, by the error handler
C24_Witness ==
    \E s \in Slots :
        /\ Done(s)
        /\ reqs[s].route = "register"
        /\ {"limiter", "validator", "lookup", "hash", "errorHandler"} \subseteq reqs[s].seen
        /\ reqs[s].by = "errorHandler"

(***************************************************************************)
(* C25: while a Register or Login request waits for the hasher or for the   *)
(* store, every other request in flight can take its next step, whatever    *)
(* the waiting request does: no step of a request needs another request to  *)
(* move or to finish first.                                                 *)
(***************************************************************************)
\* the request in slot s has been received and not yet answered
InFlight(s) == reqs[s].pc \notin {"idle", "done"}

\* the request in slot s is at an await of register or login: a store round trip,
\* bcrypt.hash or bcrypt.compare
Suspended(s) ==
    /\ reqs[s].route \in {"register", "login"}
    /\ reqs[s].pc \in {"controller", "hash", "create", "compare"}

\* the next step of the request in slot s, every other request staying where it is
HandlerStep(s) ==
    /\ \/ AuthLimiter(s)
       \/ ValidateRequest(s)
       \/ RegisterFindUnique(s)
       \/ RegisterHash(s, {"x"})
       \/ RegisterCreate(s)
       \/ LoginFindUnique(s)
       \/ LoginCompare(s)
       \/ AuthenticateToken(s)
       \/ ValidateTokenFindUnique(s)
    /\ \A t \in Slots \ {s} : reqs'[t] = reqs[t]

C25_NoBlocking ==
    \A s \in Slots : \A t \in Slots \ {s} :
        Suspended(s) /\ InFlight(t) => ENABLED HandlerStep(t)

\* a registration waits for the hasher while a login waits for bcrypt.compare
C25_Witness ==
    \E s \in Slots : \E t \in Slots \ {s} :
        /\ reqs[s].route = "register" /\ reqs[s].pc = "hash"
        /\ reqs[t].route = "login" /\ reqs[t].pc = "compare"

(***************************************************************************)
(* C26: a rate-limit rejection is never permanent.  A count never outlives  *)
(* its window, and a window never ends later than 15 minutes from now; once *)
(* the window of a client has elapsed, or the process has been restarted,   *)
(* the count of the client is zero, and a request of a client whose count   *)
(* is zero passes the limiter as hit number one.                            *)
(***************************************************************************)
C26_Inv ==
    \A c \in DOMAIN hits : hits[c].resetTime <= now + windowMs

C26_Act ==
    /\ \A c \in DOMAIN hits :
          now' >= hits[c].resetTime => usedHits(hits', c, now') = 0
    /\ Restart => \A c \in Clients : usedHits(hits', c, now') = 0
    /\ \A s \in Slots :
          /\ LimiterStep(s)
          /\ "limiter" \in reqs'[s].seen
          /\ usedHits(hits, reqs[s].client, now) = 0
          => /\ reqs'[s].pc = "validate"
             /\ reqs'[s].resp = NoResp
             /\ usedHits(hits', reqs[s].client, now') = 1

C26_RejectionNotPermanent == []C26_Inv /\ [][C26_Act]_vars

\* a client holds a 429 of its first window and, the window having elapsed, its
\* next request has passed the limiter as hit number one of a new window
C26_Witness ==
    \E s \in Slots : \E t \in Slots \ {s} :
        /\ Done(s)
        /\ reqs[s].resp.status = 429
        /\ reqs[t].client = reqs[s].client
        /\ reqs[t].pc = "validate"
        /\ now >= windowMs
        /\ reqs[t].client \in DOMAIN hits
        /\ hits[reqs[t].client].totalHits = 1
        /\ hits[reqs[t].client].resetTime = now + windowMs

(***************************************************************************)
(* C27: the cost factor Register passes to the hasher is a positive         *)
(* integer: the value of BCRYPT_ROUNDS when that is a positive integer, and *)
(* 10 when the setting is absent, is zero or is not a number.  Violated:    *)
(* parseInt keeps a negative value, which is truthy, and reads the leading  *)
(* digits of a string that is not a number.                                 *)
(***************************************************************************)
\* the setting is written as a positive integer: digits only, and not zero
IsPositiveInteger(setting) ==
    /\ IsString(setting)
    /\ setting.v # <<>>
    /\ \A i \in 1..Len(setting.v) : setting.v[i] \in Digits
    /\ DecimalValue(setting.v) > 0

\* the setting is a string that does not denote a number: it has a character that
\* no decimal number is written with
NotANumber(setting) ==
    /\ IsString(setting)
    /\ \E i \in 1..Len(setting.v) : setting.v[i] \notin Digits \cup {"+", "-", ".", " "}

\* the setting denotes zero
IsZero(setting) == setting = Str(<<"0">>)

\* the request in slot s has had its password hashed
Hashed(s) == reqs[s].hash # NoHash

C27_PositiveCost ==
    \A s \in Slots :
        Hashed(s) =>
            /\ reqs[s].hash.cost > 0
            /\ IsPositiveInteger(bcryptRounds) =>
                  reqs[s].hash.cost = DecimalValue(bcryptRounds.v)
            /\ (bcryptRounds = Undefined \/ IsZero(bcryptRounds) \/ NotANumber(bcryptRounds)) =>
                  reqs[s].hash.cost = DefaultRounds

(***************************************************************************)
(* C28: a Register request changes the store only when it succeeds.  A      *)
(* step of a Register request that does not end in the 201 leaves the store *)
(* as it is, whatever the failure (duplicate email, uniqueness race, store  *)
(* or token failure); the step that ends in the 201 adds exactly one row,   *)
(* with the email of the request; and while a Register request holds its    *)
(* 201 the store has exactly one row with that email.                      *)
(***************************************************************************)
\* the request in slot s moves in this step
Moves(s) == reqs'[s] # reqs[s] /\ reqs'[s] # Idle

C28_Act ==
    \A s \in Slots :
        Moves(s) /\ reqs'[s].route = "register" =>
            IF reqs'[s].resp.status = 201
            THEN /\ users' = users \cup {reqs'[s].user}
                 /\ reqs'[s].user \notin users
                 /\ reqs'[s].user.email = reqs[s].body.email.v
                 /\ reqs'[s].user.password = reqs[s].hash
            ELSE users' = users

C28_Inv ==
    \A s \in Slots :
        Done(s) /\ reqs[s].route = "register" /\ reqs[s].resp.status = 201 =>
            Cardinality({u \in users : u.email = reqs[s].body.email.v}) = 1

C28_StoreChangesOnlyOnSuccess == []C28_Inv /\ [][C28_Act]_vars

\* two registrations of one email raced: one holds the 201 and its row is stored,
\* the other was refused by the unique constraint and left no row
C28_Witness ==
    \E s \in Slots : \E t \in Slots \ {s} :
        /\ Done(s) /\ reqs[s].resp.status = 201
        /\ Done(t) /\ reqs[t].route = "register" /\ reqs[t].err = UniqueViolation
        /\ reqs[t].body.email = reqs[s].body.email
        /\ users = {reqs[s].user}

(***************************************************************************)
(* C29: a response carries a token only if it is the 201 of a Register      *)
(* request, and then the token names the row that request created, with     *)
(* the email and the hashed password of the request, or the 200 of a Login  *)
(* request, and then the token names a stored row with the email of the     *)
(* request whose hash is the hash of the password of the request.  No other *)
(* response carries a token.                                                *)
(***************************************************************************)
\* hash is a bcrypt hash of plaintext: the digest of plaintext under the salt of hash
IsHashOf(hash, plaintext) == hash.digest = Digest(hash.salt, plaintext)

\* the token names the row u
Names(token, u) == token.userId = u.id /\ token.email = u.email /\ token.sig = JwtSecret

\* the token in the response of slot s was earned by a registration
EarnedByRegister(s) ==
    /\ reqs[s].route = "register"
    /\ reqs[s].resp.status = 201
    /\ reqs[s].user \in users
    /\ Names(reqs[s].resp.token, reqs[s].user)
    /\ reqs[s].user.email = Email(s)
    /\ reqs[s].user.password = reqs[s].hash
    /\ IsHashOf(reqs[s].hash, Password(s))

\* the token in the response of slot s was earned by a login
EarnedByLogin(s) ==
    /\ reqs[s].route = "login"
    /\ reqs[s].resp.status = 200
    /\ \E u \in users :
          /\ Names(reqs[s].resp.token, u)
          /\ u.email = Email(s)
          /\ IsHashOf(u.password, Password(s))

C29_TokenOnlyForOwnCredentials ==
    \A s \in Slots :
        reqs[s].resp.token # NoToken => EarnedByRegister(s) \/ EarnedByLogin(s)

\* a login with the wrong password for a stored user has been refused without a
\* token, while a login with the right one holds a token of that user
C29_Witness ==
    \E s \in Slots : \E t \in Slots \ {s} :
        /\ Done(s) /\ EarnedByLogin(s)
        /\ Done(t) /\ reqs[t].route = "login" /\ Email(t) = Email(s)
        /\ Password(t) # Password(s)
        /\ reqs[t].resp.status = 401
        /\ reqs[t].resp.token = NoToken

(***************************************************************************)
(* C30: a request that passed the limiter and then failed has used one hit  *)
(* of the budget of its client.  The limiter counts every request before    *)
(* anything is known about it; the step in which a request fails (schema    *)
(* violation, duplicate email, wrong credentials, any error) leaves every   *)
(* count as it is; and a request of a client that has used 5 hits in the    *)
(* running window is answered 429 on /api/login and /api/register even if   *)
(* its payload is valid.                                                    *)
(***************************************************************************)
\* the request in slot s, past the limiter, is answered with a failure in this step
FailsNow(s) ==
    /\ reqs[s].pc \notin {"idle", "limiter", "done"}
    /\ reqs'[s].pc = "done"
    /\ reqs'[s].resp.status >= 400

C30_FailedRequestsCount ==
    [][ \A s \in Slots :
          /\ LimiterStep(s) =>
                usedHits(hits', reqs[s].client, now) = usedHits(hits, reqs[s].client, now) + 1
          /\ FailsNow(s) => hits' = hits
          /\ LimiterStep(s) /\ usedHits(hits, reqs[s].client, now) >= max =>
                /\ reqs'[s].resp.status = 429
                /\ reqs'[s].by = "limiter" ]_vars

\* no request has ever succeeded, five have passed the limiter in this window, and
\* a valid registration, the sixth, holds the 429
C30_Witness ==
    \E s \in Slots :
        /\ Done(s)
        /\ reqs[s].route = "register"
        /\ safeParse(registerSchema, reqs[s].body).success
        /\ reqs[s].resp.status = 429
        /\ users = {}
        /\ registered = {}
        /\ usedHits(hits, reqs[s].client, now) = max + 1

====
